---- MODULE Spec2Model ----
(***************************************************************************)
(* Serial-controlled five-axis stepper test console                        *)
(* (src/acisaldinamik/acisaldinamik.ino).                                  *)
(*                                                                         *)
(* The firmware is one thread: loop() assembles a line from the serial     *)
(* port and calls parseAndExec, which runs the command to completion       *)
(* (every pulse and every delay) before loop() reads again.  The host      *)
(* sends lines whenever it likes; a line sent during a move waits in the   *)
(* serial receive buffer.                                                  *)
(*                                                                         *)
(* Numbers.  The board is an Arduino Mega (pins 46-48, line 20): int is    *)
(* 16 bits, long 32 bits.  atoi keeps the low 16 bits of the decimal       *)
(* value (Atoi).  Angles and speeds are float in the source; the model     *)
(* takes whole degrees and whole degrees per second.  A float expression   *)
(* that is rounded to the nearest integer (degToSteps) is computed exactly *)
(* and the inputs are chosen away from its ties.  A float expression that  *)
(* is truncated (the target delay, rampSteps) can lose a unit to the       *)
(* rounding of its operands when the exact value is a whole number: the    *)
(* model gives every integer the float result can truncate to, within the  *)
(* relative error 2^-22 of three float operations.  The interpolated       *)
(* delays of the two ramps are computed exactly.                           *)
(***************************************************************************)
EXTENDS Integers, Sequences, FiniteSets, TLC

\* ------------------------------------------------------------ bounds
\* Lines the host sends in one run of the interactive specification.
MaxLines == 2
\* Largest step count of the profile scripts.
MaxSteps == 14

\* ------------------------------------------------------------ program constants
NumMotors == 5
DEFAULT_STEPS_PER_REV == 1600
\* 2^16: the number of values of an int on the board.
IntModulus == 65536

Motors == 1..NumMotors

\* ------------------------------------------------------------ numbers
Abs(x) == IF x < 0 THEN -x ELSE x
Max(a, b) == IF a >= b THEN a ELSE b

\* A value reduced to a signed int of the board (two's complement).
WrapInt(v) == ((v + IntModulus \div 2) % IntModulus) - IntModulus \div 2

\* ------------------------------------------------------------ tokens and lines
\* A token is a decimal integer text (t = "num", v its value) or a word
\* (t = the word, v = 0).  A line is its first token's text and the rest.
Num(n) == [t |-> "num", v |-> n]
Word(w) == [t |-> w, v |-> 0]
Line(k, a) == [kw |-> k, args |-> a]

\* atoi: the decimal value kept to the width of int; 0 for a word.
Atoi(tok) == IF tok.t = "num" THEN WrapInt(tok.v) ELSE 0
\* atol: long holds every value the model sends.
Atol(tok) == IF tok.t = "num" THEN tok.v ELSE 0
\* atof on a whole number.
Atof(tok) == IF tok.t = "num" THEN tok.v ELSE 0
\* isdigit(*p): the first character is a digit (a minus sign is not).
IsDigit(tok) == tok.t = "num" /\ tok.v >= 0

\* String::toUpperCase on the keyword texts the model sends.
ToUpperCase(s) ==
  CASE s = "m" -> "M"
    [] s = "g" -> "G"
    [] s = "q" -> "Q"
    [] s = "a" -> "A"
    [] s = "v" -> "V"
    [] s = "s" -> "S"
    [] s = "ramp" -> "RAMP"
    [] s = "Ramp" -> "RAMP"
    [] s = "pause" -> "PAUSE"
    [] s = "rep" -> "REP"
    [] s = "status" -> "STATUS"
    [] s = "stop" -> "STOP"
    [] s = "Stop" -> "STOP"
    [] s = "abort" -> "ABORT"
    [] s = "Abort" -> "ABORT"
    [] s = "move" -> "MOVE"
    [] s = "test" -> "TEST"
    [] s = "ena" -> "ENA"
    [] s = "show" -> "SHOW"
    [] s = "help" -> "HELP"
    [] OTHER -> s

\* strcasecmp(p, w) == 0 for the state words of ENA.
StrCaseEq(tok, w) == tok.t # "num" /\ ToUpperCase(tok.t) = w

\* ------------------------------------------------------------ step timing
\* degToSteps: lroundf(fabs(deg) * stepsPerRev / 360), halves away from zero.
DegToStepsCeilMutant(spr, deg) == (Abs(deg) * spr + 359) \div 360
DegToSteps(spr, deg) == (2 * Abs(deg) * spr + 360) \div 720

\* directionFor: deg >= 0 is forward (DIR HIGH).
DirectionFor(deg) == deg >= 0

\* The most a float result of three operations differs from the exact n.
FloatSlack(n) == n \div 4194304 + 1

\* dpsToDelayUs: 1e6 / max(1, dps * stepsPerRev / 360), at least 2, truncated:
\* the values the truncation can give.
DpsToDelayUs(dps, spr) ==
  LET d == IF dps <= 0 THEN 1 ELSE dps
      n == 360000000
  IN  IF d * spr < 360 THEN {1000000}
      ELSE { Max(2, q) : q \in ((n - FloatSlack(n)) \div (d * spr))
                                 .. ((n + FloatSlack(n)) \div (d * spr)) }

\* rampSteps before the clamp: (uint32) max(1, spsTarget * rampMs/1000 * 0.5),
\* the values the truncation can give.
RawRampSteps(tgt, ramp) ==
  { Max(1, q) : q \in ((500 * ramp - FloatSlack(500 * ramp)) \div tgt)
                       .. ((500 * ramp + FloatSlack(500 * ramp)) \div tgt) }

\* rampSteps: halved total when two ramps do not fit.
RampStepsNoClampMutant(total, raw) == raw
RampSteps(total, raw) == IF raw * 2 > total THEN total \div 2 ELSE raw

\* startDelayUs: 150% of the target, at least target + 2.
StartDelayUs(tgt) == Max(tgt + 2, (3 * tgt) \div 2)

\* (int)a - (int)b of the interpolation, in int arithmetic.
IntDiff(a, b) == WrapInt(WrapInt(a) - WrapInt(b))

\* Acceleration delay of step i: start + t * (tgt - start), t = i/(rampSteps-1).
AccelDelay(i, rs, tgt, start) ==
  IF rs <= 1 THEN start + IntDiff(tgt, start)
  ELSE start + ((i * IntDiff(tgt, start)) \div (rs - 1))

\* Deceleration delay of step i: tgt + t * (start - tgt).
DecelDelay(i, rs, tgt, start) ==
  IF rs <= 1 THEN tgt + IntDiff(start, tgt)
  ELSE tgt + ((i * IntDiff(start, tgt)) \div (rs - 1))

\* pulseOnce: HIGH for delay/2, LOW for the rest.
PulseHighUs(d) == d \div 2
PulseLowUs(d) == d - d \div 2

\* delay(ms) takes an unsigned long: a negative int converts to 2^32 + ms.
\* The value is kept as its high and low 16-bit halves.
ULong(v) ==
  IF v >= 0 THEN [hi |-> v \div IntModulus, lo |-> v % IntModulus]
  ELSE [hi |-> IntModulus - 1, lo |-> IntModulus + v]

\* ------------------------------------------------------------ state
VARIABLES
  aktifMotor,      \* selected motor, 1..5
  setAngleDeg,     \* target angle
  setSpeedDPS,     \* degrees per second
  pauseMs,         \* wait between forward and backward (uint16_t)
  repeats,         \* repeat count of Q (uint8_t)
  rampMs,          \* ramp time, 0 = off (uint16_t)
  stepsPerRev,     \* steps per revolution of each motor
  abortRequested,  \* emergency-stop flag
  movingMotor,     \* 0 = none, 1..5 = the motor moving now
  enaPin,          \* level of each ENA pin, "LOW" = enabled
  dirPin,          \* level of each DIR pin
  rx,              \* lines received on the serial port and not yet parsed
  cur,             \* the line parseAndExec was last called with
  sent,            \* lines the host has sent
  pc,              \* where the single thread is
  cmd,             \* the running G / Q / MOVE / TEST: its locals
  mv,              \* the running moveWithProfile: its parameters and locals
  out,             \* lines printed by the latest step
  pulses,          \* pulses on each PUL pin since the running command began
  lastMoving,      \* the last MOVING line printed
  curDelay,        \* period of the last pulse
  waits,           \* delay() calls of the running command, in order
  moves,           \* finished moves of the running command, in order
  abortInFlight,   \* an ABORT line arrived during the move now in flight
  abortInCommand   \* an ABORT or STOP line arrived during the running Q / TEST

settings == <<aktifMotor, setAngleDeg, setSpeedDPS, pauseMs, repeats, rampMs,
              stepsPerRev>>
signal == <<abortRequested, movingMotor>>
pins == <<enaPin, dirPin>>
ghost == <<pulses, lastMoving, curDelay, waits, moves, abortInFlight,
           abortInCommand>>
vars == <<settings, signal, pins, rx, cur, sent, pc, cmd, mv, out, ghost>>

P(txt, n) == [txt |-> txt, n |-> n]

NoCmd == [kind |-> "NONE", i |-> 0, m |-> 0, deg |-> 0, dps |-> 0, rep |-> 0,
          pms |-> 0, stage |-> "none"]
NoMove == [m |-> 0, deg |-> 0, dps |-> 0, ramp |-> 0, total |-> 0, tgt |-> 0,
           rs |-> 0, start |-> 0, phase |-> "none", i |-> 0, emitted |-> 0]

\* The arguments of a call of moveWithProfile.
CallMove(m, deg, dps, ramp) ==
  [NoMove EXCEPT !.m = m, !.deg = deg, !.dps = dps, !.ramp = ramp]

\* showState: the settings dump.
ShowState(am, ang, spd, spr, rmp, pau, rpt) ==
  << P("--------- AYARLAR ---------", 0), P("Motor: ", am),
     P("Aci (deg): ", ang), P("Hiz (deg/s): ", spd),
     P("Steps/Rev (secili): ", spr[am]), P("Rampa (ms): ", rmp),
     P("Pause (ms): ", pau), P("Repeat: ", rpt),
     P("---------------------------", 0) >>

\* setup(): defaults, every ENA LOW (enabled), DIR LOW, the banner.
Setup ==
  /\ aktifMotor = 1
  /\ setAngleDeg = 15
  /\ setSpeedDPS = 90
  /\ pauseMs = 500
  /\ repeats = 1
  /\ rampMs = 0
  /\ stepsPerRev = [m \in Motors |-> DEFAULT_STEPS_PER_REV]
  /\ abortRequested = FALSE
  /\ movingMotor = 0
  /\ enaPin = [m \in Motors |-> "LOW"]
  /\ dirPin = [m \in Motors |-> "LOW"]
  /\ pc = "idle"
  /\ cur = Line("", <<>>)
  /\ cmd = NoCmd
  /\ mv = NoMove
  /\ out = <<P("Stepper Test Konsolu hazir. 'HELP' yazin.", 0)>>
             \o ShowState(1, 15, 90, [m \in Motors |-> DEFAULT_STEPS_PER_REV],
                          0, 500, 1)
  /\ pulses = [m \in Motors |-> 0]
  /\ lastMoving = P("", 0)
  /\ curDelay = 0
  /\ waits = <<>>
  /\ moves = <<>>
  /\ abortInFlight = FALSE
  /\ abortInCommand = FALSE

\* ------------------------------------------------------------ parseAndExec
\* What a command handler reads and writes, as one record.
Cur ==
  [aktifMotor |-> aktifMotor, setAngleDeg |-> setAngleDeg,
   setSpeedDPS |-> setSpeedDPS, pauseMs |-> pauseMs, repeats |-> repeats,
   rampMs |-> rampMs, stepsPerRev |-> stepsPerRev,
   abortRequested |-> abortRequested, movingMotor |-> movingMotor,
   enaPin |-> enaPin, pc |-> pc, cmd |-> cmd, mv |-> mv, out |-> <<>>]

\* enaOn / enaOff on one motor, and on all five.
EnaOn(ena, m) == [ena EXCEPT ![m] = "LOW"]
EnaOff(ena, m) == [ena EXCEPT ![m] = "HIGH"]
EnaAll(level) == [m \in Motors |-> level]

Tok(a, k) == a[k]
Has(a, k) == Len(a) >= k

\* G: doForward(aktifMotor).
CmdGSignedMutant(s) ==
  [s EXCEPT !.pc = "entry",
            !.cmd = [NoCmd EXCEPT !.kind = "G", !.stage = "fwd"],
            !.mv = CallMove(s.aktifMotor, s.setAngleDeg, s.setSpeedDPS,
                            s.rampMs)]
CmdG(s) ==
  [s EXCEPT !.pc = "entry",
            !.cmd = [NoCmd EXCEPT !.kind = "G", !.stage = "fwd"],
            !.mv = CallMove(s.aktifMotor, Abs(s.setAngleDeg), s.setSpeedDPS,
                            s.rampMs)]

\* ABORT: flag, every ENA off, movingMotor cleared.
CmdABORTKeepsEnaMutant(s) ==
  [s EXCEPT !.abortRequested = TRUE, !.movingMotor = 0,
            !.enaPin = EnaOff(s.enaPin, s.aktifMotor),
            !.out = <<P("ABORT: hareket durduruldu, ENA OFF", 0)>>]
CmdABORT(s) ==
  [s EXCEPT !.abortRequested = TRUE, !.movingMotor = 0,
            !.enaPin = EnaAll("HIGH"),
            !.out = <<P("ABORT: hareket durduruldu, ENA OFF", 0)>>]

\* Q: the first doForward of the loop (repeats is at least 1; a loop that
\* does not run returns at once).
CmdQ(s) ==
  IF 0 < s.repeats
  THEN [s EXCEPT !.pc = "entry",
                 !.cmd = [NoCmd EXCEPT !.kind = "Q", !.stage = "fwd"],
                 !.mv = CallMove(s.aktifMotor, Abs(s.setAngleDeg),
                                 s.setSpeedDPS, s.rampMs)]
  ELSE s

\* M <n>
CmdM(s, a) ==
  IF Has(a, 1) /\ Atoi(Tok(a, 1)) >= 1 /\ Atoi(Tok(a, 1)) <= 5
  THEN [s EXCEPT !.aktifMotor = Atoi(Tok(a, 1)),
                 !.enaPin = EnaOn(s.enaPin, Atoi(Tok(a, 1))),
                 !.out = <<P("Motor secildi: ", Atoi(Tok(a, 1)))>>]
  ELSE s

\* ENA [m] ON|OFF
CmdENA(s, a) ==
  LET pm == IF Has(a, 1) THEN <<Tok(a, 1)>> ELSE <<>>
      digit == pm # <<>> /\ IsDigit(pm[1])
      m == IF digit THEN Atoi(pm[1]) ELSE 0
      pstate == IF digit THEN (IF Has(a, 2) THEN <<Tok(a, 2)>> ELSE <<>>)
                ELSE pm
      turnOn == pstate # <<>> /\ StrCaseEq(pstate[1], "ON")
      turnOff == pstate # <<>> /\ StrCaseEq(pstate[1], "OFF")
  IN  IF pstate = <<>> THEN s
      ELSE IF ~(turnOn \/ turnOff) THEN s
      ELSE IF m >= 1 /\ m <= 5
      THEN IF turnOn
           THEN [s EXCEPT !.enaPin = EnaOn(s.enaPin, m),
                          !.out = <<P("ENA ON M", m)>>]
           ELSE [s EXCEPT !.enaPin = EnaOff(s.enaPin, m),
                          !.out = <<P("ENA OFF M", m)>>]
      ELSE IF turnOn
           THEN [s EXCEPT !.enaPin = EnaAll("LOW"),
                          !.out = <<P("ENA: ON (tum motorlar)", 0)>>]
           ELSE [s EXCEPT !.enaPin = EnaAll("HIGH"),
                          !.out = <<P("ENA: OFF (tum motorlar)", 0)>>]

\* STOP [m]
CmdSTOPInvalidAsAllMutant(s, a) ==
  IF Has(a, 1) /\ Atoi(Tok(a, 1)) >= 1 /\ Atoi(Tok(a, 1)) <= 5
  THEN LET m == Atoi(Tok(a, 1))
       IN  [s EXCEPT
              !.abortRequested = IF s.movingMotor = m THEN TRUE
                                 ELSE s.abortRequested,
              !.movingMotor = IF s.movingMotor = m THEN 0
                              ELSE s.movingMotor,
              !.enaPin = EnaOff(s.enaPin, m),
              !.out = <<P("STOP: M", m)>>]
  ELSE [s EXCEPT !.abortRequested = TRUE, !.movingMotor = 0,
                 !.enaPin = EnaAll("HIGH"),
                 !.out = <<P("STOP: tum motorlar", 0)>>]
CmdSTOPOnlyMovingMutant(s, a) ==
  IF Has(a, 1)
  THEN LET m == Atoi(Tok(a, 1))
       IN  IF m >= 1 /\ m <= 5
           THEN IF s.movingMotor = m
                THEN [s EXCEPT !.abortRequested = TRUE, !.movingMotor = 0,
                               !.enaPin = EnaOff(s.enaPin, m),
                               !.out = <<P("STOP: M", m)>>]
                ELSE s
           ELSE s
  ELSE [s EXCEPT !.abortRequested = TRUE, !.movingMotor = 0,
                 !.enaPin = EnaAll("HIGH"),
                 !.out = <<P("STOP: tum motorlar", 0)>>]
CmdSTOP(s, a) ==
  IF Has(a, 1)
  THEN LET m == Atoi(Tok(a, 1))
       IN  IF m >= 1 /\ m <= 5
           THEN [s EXCEPT
                   !.abortRequested = IF s.movingMotor = m THEN TRUE
                                      ELSE s.abortRequested,
                   !.movingMotor = IF s.movingMotor = m THEN 0
                                   ELSE s.movingMotor,
                   !.enaPin = EnaOff(s.enaPin, m),
                   !.out = <<P("STOP: M", m)>>]
           ELSE s
  ELSE [s EXCEPT !.abortRequested = TRUE, !.movingMotor = 0,
                 !.enaPin = EnaAll("HIGH"),
                 !.out = <<P("STOP: tum motorlar", 0)>>]

\* STATUS: one line per motor, ENA read back from the pin.
CmdSTATUSActiveMutant(s) ==
  [s EXCEPT !.out =
     [i \in Motors |->
        P(IF s.enaPin[i] = "LOW"
          THEN (IF s.aktifMotor = i THEN "STATUS ENA:ON MOVING:1"
                ELSE "STATUS ENA:ON MOVING:0")
          ELSE (IF s.aktifMotor = i THEN "STATUS ENA:OFF MOVING:1"
                ELSE "STATUS ENA:OFF MOVING:0"), i)]]
CmdSTATUS(s) ==
  [s EXCEPT !.out =
     [i \in Motors |->
        P(IF s.enaPin[i] = "LOW"
          THEN (IF s.movingMotor = i THEN "STATUS ENA:ON MOVING:1"
                ELSE "STATUS ENA:ON MOVING:0")
          ELSE (IF s.movingMotor = i THEN "STATUS ENA:OFF MOVING:1"
                ELSE "STATUS ENA:OFF MOVING:0"), i)]]

\* A <deg>
CmdAMissingReportsMutant(s, a) ==
  IF Has(a, 1)
  THEN [s EXCEPT !.setAngleDeg = Atof(Tok(a, 1)),
                 !.out = <<P("Aci(deg): ", Atof(Tok(a, 1)))>>]
  ELSE [s EXCEPT !.out = <<P("Bilinmeyen komut. 'HELP' yaz.", 0)>>]
CmdA(s, a) ==
  IF Has(a, 1)
  THEN [s EXCEPT !.setAngleDeg = Atof(Tok(a, 1)),
                 !.out = <<P("Aci(deg): ", Atof(Tok(a, 1)))>>]
  ELSE s

\* V <dps>: a speed of 0 or less becomes 1.
CmdV(s, a) ==
  IF Has(a, 1)
  THEN LET v == IF Atof(Tok(a, 1)) <= 0 THEN 1 ELSE Atof(Tok(a, 1))
       IN  [s EXCEPT !.setSpeedDPS = v, !.out = <<P("Hiz(deg/s): ", v)>>]
  ELSE s

\* S <steps_rev>: (uint32_t) atol; a negative long converts to a value above
\* 2^31, which the range check rejects like any value above 200000.
CmdSNoRangeMutant(s, a) ==
  IF Has(a, 1)
  THEN [s EXCEPT !.stepsPerRev = [s.stepsPerRev EXCEPT
                                    ![s.aktifMotor] = Atol(Tok(a, 1))],
                 !.out = <<P("Steps/Rev (M", s.aktifMotor),
                           P("): ", Atol(Tok(a, 1)))>>]
  ELSE s
CmdS(s, a) ==
  IF Has(a, 1) /\ Atol(Tok(a, 1)) >= 50 /\ Atol(Tok(a, 1)) <= 200000
  THEN [s EXCEPT !.stepsPerRev = [s.stepsPerRev EXCEPT
                                    ![s.aktifMotor] = Atol(Tok(a, 1))],
                 !.out = <<P("Steps/Rev (M", s.aktifMotor),
                           P("): ", Atol(Tok(a, 1)))>>]
  ELSE s

\* RAMP <ms>: clamped to 0..5000.
CmdRAMP(s, a) ==
  IF Has(a, 1)
  THEN LET v0 == Atoi(Tok(a, 1))
           v1 == IF v0 < 0 THEN 0 ELSE v0
           v == IF v1 > 5000 THEN 5000 ELSE v1
       IN  [s EXCEPT !.rampMs = v, !.out = <<P("Rampa (ms): ", v)>>]
  ELSE s

\* PAUSE <ms>: negative becomes 0; (uint16_t) of a non-negative int.
CmdPAUSE(s, a) ==
  IF Has(a, 1)
  THEN LET v0 == Atoi(Tok(a, 1))
           v == (IF v0 < 0 THEN 0 ELSE v0) % IntModulus
       IN  [s EXCEPT !.pauseMs = v, !.out = <<P("Pause (ms): ", v)>>]
  ELSE s

\* REP <n>: clamped to 1..200.
CmdREP(s, a) ==
  IF Has(a, 1)
  THEN LET v0 == Atoi(Tok(a, 1))
           v1 == IF v0 < 1 THEN 1 ELSE v0
           v == IF v1 > 200 THEN 200 ELSE v1
       IN  [s EXCEPT !.repeats = v, !.out = <<P("Repeat: ", v)>>]
  ELSE s

\* MOVE m deg dps
CmdMOVEKeepsSelectionMutant(s, a) ==
  IF Has(a, 3)
  THEN LET m == Atoi(Tok(a, 1))
           deg == Atof(Tok(a, 2))
           dps == Atof(Tok(a, 3))
       IN  IF m >= 1 /\ m <= 5 /\ dps > 0
           THEN [s EXCEPT !.pc = "entry",
                          !.cmd = [NoCmd EXCEPT !.kind = "MOVE",
                                                !.stage = "fwd"],
                          !.mv = CallMove(m, deg, dps, s.rampMs)]
           ELSE s
  ELSE s
CmdMOVE(s, a) ==
  IF Has(a, 3)
  THEN LET m == Atoi(Tok(a, 1))
           deg == Atof(Tok(a, 2))
           dps == Atof(Tok(a, 3))
       IN  IF m >= 1 /\ m <= 5 /\ dps > 0
           THEN [s EXCEPT !.aktifMotor = m, !.abortRequested = FALSE,
                          !.pc = "entry",
                          !.cmd = [NoCmd EXCEPT !.kind = "MOVE",
                                                !.stage = "fwd"],
                          !.mv = CallMove(m, deg, dps, s.rampMs)]
           ELSE s
  ELSE s

\* TEST m deg dps rep pause_ms: up to the first moveWithProfile of the loop.
CmdTEST(s, a) ==
  IF Has(a, 5)
  THEN LET m == Atoi(Tok(a, 1))
           deg == Atof(Tok(a, 2))
           dps == Atof(Tok(a, 3))
           rep == Atoi(Tok(a, 4))
           pms == Atoi(Tok(a, 5))
       IN  IF m >= 1 /\ m <= 5 /\ dps > 0 /\ rep >= 1
           THEN [s EXCEPT !.aktifMotor = m, !.abortRequested = FALSE,
                          !.pc = "entry",
                          !.cmd = [kind |-> "TEST", i |-> 0, m |-> m,
                                   deg |-> deg, dps |-> dps, rep |-> rep,
                                   pms |-> pms, stage |-> "fwd"],
                          !.mv = CallMove(m, Abs(deg), dps, s.rampMs)]
           ELSE s
  ELSE s

Unknown(s) == [s EXCEPT !.out = <<P("Bilinmeyen komut. 'HELP' yaz.", 0)>>]

\* The keyword the tokenised commands are compared with: strcmp on the line
\* as typed.
TokenKeyword(line) == line.kw

\* parseAndExec(line) from state s: the one-word commands are compared on the
\* upper-cased line, the others by strcmp on the first token.
ParseAndExec(s, line) ==
  LET u == IF line.args = <<>> THEN ToUpperCase(line.kw) ELSE ""
      c == TokenKeyword(line)
      a == line.args
  IN  IF line.kw = "" THEN s
      ELSE IF u = "HELP" \/ u = "?" THEN [s EXCEPT !.out = <<P("Komutlar:", 0)>>]
      ELSE IF u = "SHOW"
        THEN [s EXCEPT !.out = ShowState(s.aktifMotor, s.setAngleDeg,
                                 s.setSpeedDPS, s.stepsPerRev, s.rampMs,
                                 s.pauseMs, s.repeats)]
      ELSE IF u = "G" THEN CmdG(s)
      ELSE IF u = "ABORT" THEN CmdABORT(s)
      ELSE IF u = "Q" THEN CmdQ(s)
      ELSE IF c = "M" THEN CmdM(s, a)
      ELSE IF c = "ENA" THEN CmdENA(s, a)
      ELSE IF c = "STOP" THEN CmdSTOP(s, a)
      ELSE IF c = "STATUS" THEN CmdSTATUS(s)
      ELSE IF c = "A" THEN CmdA(s, a)
      ELSE IF c = "V" THEN CmdV(s, a)
      ELSE IF c = "S" THEN CmdS(s, a)
      ELSE IF c = "RAMP" THEN CmdRAMP(s, a)
      ELSE IF c = "PAUSE" THEN CmdPAUSE(s, a)
      ELSE IF c = "REP" THEN CmdREP(s, a)
      ELSE IF c = "MOVE" THEN CmdMOVE(s, a)
      ELSE IF c = "TEST" THEN CmdTEST(s, a)
      ELSE Unknown(s)

\* ------------------------------------------------------------ the host
\* The one-word command ABORT, in any case (line 216).
IsAbortLine(l) == ToUpperCase(l.kw) = "ABORT" /\ l.args = <<>>
\* A line that asks every motor to stop: ABORT, or STOP without an axis
\* (line 294).
IsStopAllLine(l) == IsAbortLine(l) \/ (l.kw = "STOP" /\ l.args = <<>>)

\* The host sends one more line; it waits in the receive buffer until loop()
\* reads it.
SerialReceive(l) ==
  /\ sent < MaxLines
  /\ rx' = Append(rx, l)
  /\ sent' = sent + 1
  /\ abortInFlight' = (abortInFlight \/ (IsAbortLine(l) /\ movingMotor # 0))
  /\ abortInCommand' = (abortInCommand
                          \/ (IsStopAllLine(l) /\ cmd.kind \in {"Q", "TEST"}))
  /\ UNCHANGED <<settings, signal, pins, cur, pc, cmd, mv, out, pulses,
                 lastMoving, curDelay, waits, moves>>

\* ------------------------------------------------------------ loop()
\* loop(): a complete line is in the buffer and no command is running;
\* parseAndExec runs up to its return or its first call of moveWithProfile.
LoopPreemptsMutant ==
  /\ rx # <<>>
  /\ (pc = "idle" \/ IsStopAllLine(Head(rx)))
  /\ LET r == ParseAndExec(Cur, Head(rx))
     IN  /\ aktifMotor' = r.aktifMotor
         /\ setAngleDeg' = r.setAngleDeg
         /\ setSpeedDPS' = r.setSpeedDPS
         /\ pauseMs' = r.pauseMs
         /\ repeats' = r.repeats
         /\ rampMs' = r.rampMs
         /\ stepsPerRev' = r.stepsPerRev
         /\ abortRequested' = r.abortRequested
         /\ movingMotor' = r.movingMotor
         /\ enaPin' = r.enaPin
         /\ pc' = r.pc
         /\ cmd' = r.cmd
         /\ mv' = r.mv
         /\ out' = r.out
  /\ rx' = Tail(rx)
  /\ cur' = Head(rx)
  /\ pulses' = [m \in Motors |-> 0]
  /\ waits' = <<>>
  /\ moves' = <<>>
  /\ UNCHANGED <<dirPin, sent, lastMoving, curDelay, abortInFlight,
                 abortInCommand>>
Loop ==
  /\ pc = "idle"
  /\ rx # <<>>
  /\ LET r == ParseAndExec(Cur, Head(rx))
     IN  /\ aktifMotor' = r.aktifMotor
         /\ setAngleDeg' = r.setAngleDeg
         /\ setSpeedDPS' = r.setSpeedDPS
         /\ pauseMs' = r.pauseMs
         /\ repeats' = r.repeats
         /\ rampMs' = r.rampMs
         /\ stepsPerRev' = r.stepsPerRev
         /\ abortRequested' = r.abortRequested
         /\ movingMotor' = r.movingMotor
         /\ enaPin' = r.enaPin
         /\ pc' = r.pc
         /\ cmd' = r.cmd
         /\ mv' = r.mv
         /\ out' = r.out
  /\ rx' = Tail(rx)
  /\ cur' = Head(rx)
  /\ pulses' = [m \in Motors |-> 0]
  /\ waits' = <<>>
  /\ moves' = <<>>
  /\ UNCHANGED <<dirPin, sent, lastMoving, curDelay, abortInFlight,
                 abortInCommand>>

\* ------------------------------------------------------------ moveWithProfile
\* Lines 103-114 and the choice of branch: nothing happens for 0 steps;
\* otherwise DIR, ENA, movingMotor, the flag, the START line.
MoveEntry ==
  /\ pc = "entry"
  /\ LET spr == stepsPerRev[mv.m]
         total == DegToSteps(spr, mv.deg)
         ramped == ~(mv.ramp = 0 \/ total < 10)
     IN  IF total = 0
         THEN /\ pc' = "return"
              /\ mv' = NoMove
              /\ out' = <<>>
              /\ UNCHANGED <<signal, pins, lastMoving>>
         ELSE /\ dirPin' = [dirPin EXCEPT ![mv.m] =
                              IF DirectionFor(mv.deg) THEN "HIGH" ELSE "LOW"]
              /\ enaPin' = EnaOn(enaPin, mv.m)
              /\ movingMotor' = mv.m
              /\ abortRequested' = FALSE
              /\ out' = <<P("MOVING START", mv.m)>>
              /\ lastMoving' = P("MOVING START", mv.m)
              /\ \E tgt \in DpsToDelayUs(mv.dps, spr) :
                   \E raw \in RawRampSteps(tgt, mv.ramp) :
                     mv' = [mv EXCEPT
                              !.total = total, !.tgt = tgt,
                              !.rs = IF ramped THEN RampSteps(total, raw)
                                     ELSE 0,
                              !.start = IF ramped THEN StartDelayUs(tgt)
                                        ELSE 0,
                              !.phase = IF ramped THEN "accel" ELSE "const",
                              !.i = 0, !.emitted = 0]
              /\ pc' = "pulse"
  /\ UNCHANGED <<settings, rx, cur, sent, cmd, pulses, curDelay, waits, moves,
                 abortInFlight, abortInCommand>>

\* The bound of the running for loop, and the delay of its next pulse.
PhaseBound(f) ==
  CASE f.phase = "const" -> f.total
    [] f.phase = "accel" -> f.rs
    [] f.phase = "cruise" -> f.total - f.rs - f.rs
    [] f.phase = "decel" -> f.rs
    [] OTHER -> 0
PhaseDelay(f) ==
  CASE f.phase = "accel" -> AccelDelay(f.i, f.rs, f.tgt, f.start)
    [] f.phase = "decel" -> DecelDelay(f.i, f.rs, f.tgt, f.start)
    [] OTHER -> f.tgt
NextPhase(f) ==
  CASE f.phase = "accel" -> "cruise"
    [] f.phase = "cruise" -> "decel"
    [] OTHER -> "done"

\* Whether the loop's pre-pulse check lets the next pulse out.
MayPulse(f) == f.i < PhaseBound(f) /\ ~abortRequested

\* One iteration of the running for loop: the abort check, then pulseOnce.
PulseOnce ==
  /\ pc = "pulse"
  /\ MayPulse(mv)
  /\ pulses' = [pulses EXCEPT ![mv.m] = @ + 1]
  /\ curDelay' = PhaseDelay(mv)
  /\ mv' = [mv EXCEPT !.i = @ + 1, !.emitted = @ + 1]
  /\ out' = <<>>
  /\ UNCHANGED <<settings, signal, pins, rx, cur, sent, pc, cmd, lastMoving,
                 waits, moves, abortInFlight, abortInCommand>>

\* The running for loop ends (its count is reached, or break on the flag);
\* the next loop of the profile starts, if there is one.
PhaseDone ==
  /\ pc = "pulse"
  /\ ~MayPulse(mv)
  /\ IF NextPhase(mv) = "done"
     THEN /\ pc' = "end"
          /\ mv' = mv
     ELSE /\ pc' = pc
          /\ mv' = [mv EXCEPT !.phase = NextPhase(mv), !.i = 0]
  /\ out' = <<>>
  /\ UNCHANGED <<settings, signal, pins, rx, cur, sent, cmd, ghost>>

\* Lines 159-160: movingMotor = 0 and the END line.
MoveEndKeepsMovingMutant ==
  /\ pc = "end"
  /\ movingMotor' = movingMotor
  /\ out' = <<P("MOVING END", mv.m)>>
  /\ lastMoving' = P("MOVING END", mv.m)
  /\ moves' = Append(moves, [m |-> mv.m, dir |-> dirPin[mv.m],
                             n |-> mv.emitted])
  /\ pc' = "return"
  /\ mv' = NoMove
  /\ abortInFlight' = FALSE
  /\ UNCHANGED <<settings, abortRequested, pins, rx, cur, sent, cmd, pulses,
                 curDelay, waits, abortInCommand>>
MoveEnd ==
  /\ pc = "end"
  /\ movingMotor' = 0
  /\ out' = <<P("MOVING END", mv.m)>>
  /\ lastMoving' = P("MOVING END", mv.m)
  /\ moves' = Append(moves, [m |-> mv.m, dir |-> dirPin[mv.m],
                             n |-> mv.emitted])
  /\ pc' = "return"
  /\ mv' = NoMove
  /\ abortInFlight' = FALSE
  /\ UNCHANGED <<settings, abortRequested, pins, rx, cur, sent, cmd, pulses,
                 curDelay, waits, abortInCommand>>

\* ------------------------------------------------------------ after a move
\* i + 1 < repeats: another forward/backward pair follows pair i (the wait
\* after the backward move, and the loop condition after i++).
MoreRepeatsOffByOneMutant(i, n) == i < n
MoreRepeats(i, n) == i + 1 < n

\* moveWithProfile has returned into G, MOVE, Q or TEST: the rest of the
\* command up to its next call of moveWithProfile or its return.
Return ==
  /\ pc = "return"
  /\ LET done == /\ pc' = "idle"
                 /\ cmd' = NoCmd
                 /\ mv' = NoMove
                 /\ abortInCommand' = FALSE
         call(stage, i, m, deg, dps) ==
                 /\ pc' = "entry"
                 /\ abortInCommand' = abortInCommand
                 /\ cmd' = [cmd EXCEPT !.stage = stage, !.i = i]
                 /\ mv' = CallMove(m, deg, dps, rampMs)
     IN  CASE cmd.kind = "Q" /\ cmd.stage = "fwd" ->
                /\ waits' = Append(waits, ULong(pauseMs))
                /\ call("bwd", cmd.i, aktifMotor, -Abs(setAngleDeg),
                        setSpeedDPS)
           [] cmd.kind = "Q" /\ cmd.stage = "bwd" ->
                /\ waits' = IF MoreRepeats(cmd.i, repeats)
                            THEN Append(waits, ULong(pauseMs)) ELSE waits
                /\ IF MoreRepeats(cmd.i, repeats)
                   THEN call("fwd", cmd.i + 1, aktifMotor, Abs(setAngleDeg),
                             setSpeedDPS)
                   ELSE done
           [] cmd.kind = "TEST" /\ cmd.stage = "fwd" ->
                IF abortRequested
                THEN done /\ waits' = waits
                ELSE /\ waits' = Append(waits, ULong(cmd.pms))
                     /\ call("bwd", cmd.i, cmd.m, -Abs(cmd.deg), cmd.dps)
           [] cmd.kind = "TEST" /\ cmd.stage = "bwd" ->
                /\ waits' = IF MoreRepeats(cmd.i, cmd.rep)
                            THEN Append(waits, ULong(cmd.pms)) ELSE waits
                /\ IF MoreRepeats(cmd.i, cmd.rep) /\ ~abortRequested
                   THEN call("fwd", cmd.i + 1, cmd.m, Abs(cmd.deg), cmd.dps)
                   ELSE done
           [] OTHER -> done /\ waits' = waits
  /\ out' = <<>>
  /\ UNCHANGED <<settings, signal, pins, rx, cur, sent, pulses, lastMoving,
                 curDelay, moves, abortInFlight>>

\* What the firmware does, without the host.
Program == Loop \/ MoveEntry \/ PulseOnce \/ PhaseDone \/ MoveEnd \/ Return

\* ------------------------------------------------------------ specifications
\* The lines the host may send in the interactive specification.
Lines ==
  { Line("G", <<>>), Line("g", <<>>),
    Line("ABORT", <<>>), Line("abort", <<>>),
    Line("STOP", <<>>),
    Line("STOP", <<Num(1)>>), Line("STOP", <<Num(9)>>),
    Line("STOP", <<Num(65538)>>),
    Line("STATUS", <<>>),
    Line("M", <<Num(2)>>), Line("m", <<Num(2)>>), Line("M", <<Num(9)>>),
    Line("A", <<Num(-1)>>), Line("A", <<Num(0)>>),
    Line("V", <<Num(0)>>),
    Line("S", <<Num(50)>>), Line("S", <<Num(10)>>),
    Line("S", <<Num(200001)>>), Line("S", <<Num(-5)>>),
    Line("RAMP", <<Num(99999)>>), Line("RAMP", <<Num(5)>>),
    Line("ramp", <<Num(100)>>), Line("RAMP", <<Num(-7)>>),
    Line("RAMP", <<Num(6000)>>),
    Line("PAUSE", <<Num(40000)>>), Line("PAUSE", <<Num(70000)>>),
    Line("PAUSE", <<Num(-1)>>),
    Line("REP", <<Num(0)>>), Line("REP", <<Num(2)>>),
    Line("REP", <<Num(40000)>>),
    Line("ENA", <<Word("OFF")>>), Line("ENA", <<Num(2), Word("OFF")>>),
    Line("MOVE", <<Num(3), Num(2), Num(90)>>),
    Line("MOVE", <<Num(3), Num(-3), Num(90)>>),
    Line("MOVE", <<Num(3), Num(0), Num(90)>>),
    Line("move", <<Num(1), Num(10), Num(90)>>),
    Line("TEST", <<Num(1), Num(1), Num(90), Num(2), Num(20)>>),
    Line("RAMP", <<>>), Line("REP", <<Word("x")>>), Line("M", <<Num(0)>>),
    Line("ENA", <<Num(9), Word("ON")>>), Line("ENA", <<Num(0), Word("OFF")>>),
    Line("MOVE", <<Num(9), Num(2), Num(90)>>),
    Line("MOVE", <<Num(3), Num(2), Num(0)>>),
    Line("TEST", <<Num(7), Num(1), Num(90), Num(2), Num(20)>>),
    Line("TEST", <<Num(1), Num(1), Num(0), Num(2), Num(20)>>),
    Line("TEST", <<Num(1), Num(1), Num(90), Num(0), Num(20)>>),
    Line("A", <<>>), Line("MOVE", <<Num(1), Num(10)>>),
    Line("TEST", <<Num(1), Num(10), Num(90)>>),
    Line("FOO", <<>>), Line("", <<>>) }

Init == Setup /\ rx = <<>> /\ sent = 0

Next == (\E l \in Lines : SerialReceive(l)) \/ Program

Spec == Init /\ [][Next]_vars

\* The sessions of the scripted specification: the host has sent the whole
\* script and the firmware works through it, one line after the other.
AngleInputs == {90, -90, 2, -3, 0}
SpeedInputs == {180, 0}
RampInputs == {0, 1, 12, 33, 5000}
ProfileSpeeds == {400, 90, 600000}

\* M n, A deg, V dps, G, on default axes and after S 400 on axis 1.
SessionScripts ==
  { <<Line("M", <<Num(n)>>), Line("A", <<Num(d)>>), Line("V", <<Num(v)>>),
      Line("G", <<>>)>> : n \in Motors, d \in AngleInputs, v \in SpeedInputs }
  \cup
  { <<Line("S", <<Num(400)>>), Line("M", <<Num(n)>>), Line("A", <<Num(d)>>),
      Line("G", <<>>)>> : n \in {1, 4}, d \in AngleInputs }

\* S 360 (one step per degree), RAMP r, MOVE 1 k dps: every step count up to
\* MaxSteps at every ramp and speed.
ProfileScripts ==
  { <<Line("S", <<Num(360)>>), Line("RAMP", <<Num(r)>>),
      Line("MOVE", <<Num(1), Num(k), Num(v)>>)>> :
      r \in RampInputs, k \in 1..MaxSteps, v \in ProfileSpeeds }

\* S 400, PAUSE p, REP r, Q.
RepeatScripts ==
  { <<Line("S", <<Num(400)>>), Line("PAUSE", <<Num(p)>>),
      Line("REP", <<Num(r)>>), Line("Q", <<>>)>> :
      p \in {0, 200, 40000}, r \in {1, 3} }

\* M 2, TEST m deg 90 rep pause.
TestScripts ==
  { <<Line("M", <<Num(2)>>),
      Line("TEST", <<Num(m), Num(d), Num(90), Num(r), Num(p)>>)>> :
      m \in {1, 5}, d \in {10, -10}, r \in {1, 3}, p \in {0, 200} }

\* Moves of less than half a step, with the flag set or the drivers off.
ZeroScripts ==
  { <<Line("ABORT", <<>>), Line("A", <<Num(0)>>), Line("G", <<>>)>>,
    <<Line("STOP", <<>>), Line("A", <<Num(0)>>), Line("Q", <<>>)>>,
    <<Line("S", <<Num(50)>>), Line("ENA", <<Word("OFF")>>),
      Line("MOVE", <<Num(1), Num(1), Num(90)>>)>>,
    <<Line("S", <<Num(50)>>), Line("A", <<Num(-3)>>), Line("G", <<>>)>> }

\* A ramped move at 1 degree per second: a step every 225 ms.
SlowScripts ==
  { <<Line("V", <<Num(1)>>), Line("RAMP", <<Num(5000)>>), Line("G", <<>>)>> }

Scripts ==
  SessionScripts \cup ProfileScripts \cup RepeatScripts \cup TestScripts
    \cup ZeroScripts \cup SlowScripts

InitScript == Setup /\ rx \in Scripts /\ sent = Len(rx)

NextScript == Program

SpecScript == InitScript /\ [][NextScript]_vars

\* ------------------------------------------------------------ claims
\* A step of the firmware that hands line l to parseAndExec.
Handles(l) == pc = "idle" /\ rx # <<>> /\ Head(rx) = l /\ rx' = Tail(rx)
\* A step of the firmware (the host's steps only lengthen rx).
FirmwareStep == sent' = sent
\* An ABORT line has reached the board and is not parsed yet.
AbortReceived == \E k \in 1..Len(rx) : IsAbortLine(rx[k])

\* C1 (as claimed): once ABORT has been issued while a move is in flight, no
\* further pulse is emitted for that move.  (movingMotor does become 0, at
\* the move's own end.)
C1_AbortStopsPulses ==
  [][abortInFlight => pulses' = pulses]_vars

\* C2: MOVING START and MOVING END alternate, each END names the axis of the
\* START before it, movingMotor is that axis from START to END and 0
\* otherwise, so it is always in 0..5 and no move starts inside another.
C2_StartEndAlternate ==
  /\ [](/\ movingMotor \in 0..NumMotors
        /\ movingMotor = IF lastMoving.txt = "MOVING START"
                         THEN lastMoving.n ELSE 0)
  /\ [][/\ (FirmwareStep /\ Len(out') = 1 /\ out'[1].txt = "MOVING START")
           => /\ lastMoving.txt # "MOVING START"
              /\ movingMotor = 0
              /\ movingMotor' = out'[1].n
              /\ out'[1].n \in Motors
        /\ (FirmwareStep /\ Len(out') = 1 /\ out'[1].txt = "MOVING END")
           => /\ lastMoving = P("MOVING START", out'[1].n)
              /\ movingMotor = out'[1].n
              /\ movingMotor' = 0]_vars

\* C2 witness: a second move of one command is in flight on the axis of the
\* first, after an ABORT was received during the first.
C2_Witness ==
  /\ moves # <<>>
  /\ movingMotor = moves[1].m
  /\ lastMoving = P("MOVING START", movingMotor)
  /\ AbortReceived

\* C3: when G has finished, only the selected axis was pulsed, forward
\* whatever the sign of the angle, by round(|deg| * stepsPerRev / 360)
\* pulses between one MOVING START and one MOVING END of that axis (none
\* and no lines for 0 steps); M 2, A 90 at 1600 steps/rev gives 400.
C3_GMovesActiveAxisForward ==
  (cmd.kind = "G" /\ pc = "return") =>
    LET n == aktifMotor
        N == pulses[n]
    IN  /\ \A k \in Motors \ {n} : pulses[k] = 0
        /\ 2 * Abs(360 * N - Abs(setAngleDeg) * stepsPerRev[n]) <= 360
        /\ IF N = 0 THEN moves = <<>>
           ELSE /\ moves = <<[m |-> n, dir |-> "HIGH", n |-> N]>>
                /\ dirPin[n] = "HIGH"
                /\ lastMoving = P("MOVING END", n)
        /\ (n = 2 /\ setAngleDeg = 90 /\ stepsPerRev[2] = 1600) => N = 400

\* C3 witness: M 2, A -90, V 180, G has run: 400 pulses forward on axis 2.
C3_Witness ==
  /\ cmd.kind = "G" /\ pc = "return"
  /\ aktifMotor = 2 /\ setAngleDeg = -90 /\ setSpeedDPS = 180
  /\ pulses[2] = 400
  /\ dirPin[2] = "HIGH"

\* The branch moveWithProfile takes for the frame f.
Ramped(f) == f.ramp > 0 /\ f.total >= 10

\* C4: a move emits exactly totalSteps pulses.  In the ramped branch
\* 2 * rampSteps <= totalSteps and the three loops emit rampSteps,
\* totalSteps - 2 * rampSteps and rampSteps pulses; in the constant branch
\* every pulse has the target delay.
C4_ProfileLength ==
  /\ pc \in {"pulse", "end"} =>
       /\ mv.total >= 1
       /\ mv.tgt \in DpsToDelayUs(mv.dps, stepsPerRev[mv.m])
       /\ IF Ramped(mv)
          THEN /\ mv.phase \in {"accel", "cruise", "decel"}
               /\ 2 * mv.rs <= mv.total
               /\ mv.phase = "accel" => mv.emitted = mv.i /\ mv.i <= mv.rs
               /\ mv.phase = "cruise" =>
                    mv.emitted = mv.rs + mv.i /\ mv.i <= mv.total - 2 * mv.rs
               /\ mv.phase = "decel" =>
                    mv.emitted = mv.total - mv.rs + mv.i /\ mv.i <= mv.rs
          ELSE /\ mv.phase = "const"
               /\ mv.emitted = mv.i
               /\ mv.emitted > 0 => curDelay = mv.tgt
  /\ pc = "end" => ~MayPulse(mv) /\ mv.emitted = mv.total

\* C4 witness: a ramped move of 14 steps ends after 2 + 10 + 2 pulses.
C4_Witness ==
  /\ pc = "end" /\ Ramped(mv)
  /\ mv.total = 14 /\ mv.rs = 2 /\ mv.phase = "decel" /\ mv.i = 2
  /\ mv.emitted = 14

\* A step of the firmware that takes the next line into parseAndExec.
LoopStep == pc = "idle" /\ rx # <<>> /\ rx' = Tail(rx)
\* The line has one decimal argument at least.
HasNum(l) == Len(l.args) >= 1 /\ l.args[1].t = "num"
Clamp(v, lo, hi) == IF v < lo THEN lo ELSE IF v > hi THEN hi ELSE v

\* C5: after any lines the settings stay in range: aktifMotor in 1..5, rampMs
\* in 0..5000, repeats in 1..200, every stepsPerRev in 50..200000; only an S
\* line with a value in 50..200000 changes stepsPerRev, and only the entry
\* of the selected motor.
C5_SettingsInRange ==
  /\ [](/\ aktifMotor \in 1..5
        /\ rampMs \in 0..5000
        /\ repeats \in 1..200
        /\ \A m \in Motors : stepsPerRev[m] \in 50..200000)
  /\ [][IF /\ LoopStep
           /\ Head(rx).kw = "S"
           /\ HasNum(Head(rx))
           /\ Head(rx).args[1].v \in 50..200000
        THEN stepsPerRev' = [stepsPerRev EXCEPT
                               ![aktifMotor] = Head(rx).args[1].v]
        ELSE stepsPerRev' = stepsPerRev]_vars

\* C5 witness: S 50 was taken and S 10 after it left the 50 in place.
C5_Witness ==
  /\ pc = "idle"
  /\ cur = Line("S", <<Num(10)>>)
  /\ stepsPerRev[aktifMotor] = 50

\* C6 (as claimed): RAMP v stores min(max(v, 0), 5000) and REP v stores
\* min(max(v, 1), 200), for a decimal v of any size.
C6_ClampLaw ==
  /\ (pc = "idle" /\ cur.kw = "RAMP" /\ HasNum(cur))
       => rampMs = Clamp(cur.args[1].v, 0, 5000)
  /\ (pc = "idle" /\ cur.kw = "REP" /\ HasNum(cur))
       => repeats = Clamp(cur.args[1].v, 1, 200)

\* C7 (as claimed): PAUSE v stores v for every v >= 0 (0 for a negative v),
\* never a wrapped value, and the waits of a later Q last the stored value.
C7_PauseStoresValue ==
  /\ (cur.kw = "PAUSE" /\ HasNum(cur))
       => pauseMs = (IF cur.args[1].v < 0 THEN 0 ELSE cur.args[1].v)
  /\ cmd.kind = "Q" => \A k \in 1..Len(waits) : waits[k] = ULong(pauseMs)

\* The line with its keyword in upper case.
UpperLine(l) == [l EXCEPT !.kw = ToUpperCase(l.kw)]

\* C8 (as claimed): a line has the effect on state and output of the same
\* line with its keyword in upper case.
C8_KeywordCaseInsensitive ==
  [][LoopStep =>
       LET r == ParseAndExec(Cur, UpperLine(Head(rx)))
       IN  /\ aktifMotor' = r.aktifMotor
           /\ setAngleDeg' = r.setAngleDeg
           /\ setSpeedDPS' = r.setSpeedDPS
           /\ pauseMs' = r.pauseMs
           /\ repeats' = r.repeats
           /\ rampMs' = r.rampMs
           /\ stepsPerRev' = r.stepsPerRev
           /\ abortRequested' = r.abortRequested
           /\ movingMotor' = r.movingMotor
           /\ enaPin' = r.enaPin
           /\ pc' = r.pc
           /\ cmd' = r.cmd
           /\ mv' = r.mv
           /\ out' = r.out]_vars

\* C9: ABORT, from any state in which it is taken, leaves abortRequested set,
\* the five ENA pins off and movingMotor 0, prints its line, and changes no
\* setting.
C9_AbortEffect ==
  [][(LoopStep /\ IsAbortLine(Head(rx))) =>
       /\ abortRequested'
       /\ \A m \in Motors : enaPin'[m] = "HIGH"
       /\ movingMotor' = 0
       /\ pc' = "idle"
       /\ out' = <<P("ABORT: hareket durduruldu, ENA OFF", 0)>>
       /\ UNCHANGED <<settings, dirPin>>]_vars

\* C9 witness: ABORT was taken after M 2: the selection is kept, the flag is
\* set and every driver is off.
C9_Witness ==
  /\ pc = "idle"
  /\ IsAbortLine(cur)
  /\ aktifMotor = 2
  /\ abortRequested
  /\ enaPin = [m \in Motors |-> "HIGH"]

\* STOP with a decimal argument.
IsStopNum(l) == l.kw = "STOP" /\ HasNum(l)

\* C10 (as claimed): STOP m with m outside 1..5 acts as STOP without an
\* argument: flag set, the five ENA pins off, movingMotor 0.
C10_StopInvalidIsStopAll ==
  [][(LoopStep /\ IsStopNum(Head(rx)) /\ Head(rx).args[1].v \notin 1..5) =>
       /\ abortRequested'
       /\ \A m \in Motors : enaPin'[m] = "HIGH"
       /\ movingMotor' = 0
       /\ out' = <<P("STOP: tum motorlar", 0)>>]_vars

\* C10 (amended): STOP m whose argument reads, as a 16-bit int, as a value
\* outside 1..5 changes nothing and prints nothing.
C10_StopInvalidIgnored ==
  [][(LoopStep /\ IsStopNum(Head(rx))
        /\ WrapInt(Head(rx).args[1].v) \notin 1..5) =>
       /\ UNCHANGED <<settings, signal, pins>>
       /\ out' = <<>>
       /\ pc' = "idle"]_vars

\* C10 witness: STOP 9 was taken with the flag clear and the drivers on.
C10_Witness ==
  /\ pc = "idle"
  /\ cur = Line("STOP", <<Num(9)>>)
  /\ ~abortRequested
  /\ enaPin = [m \in Motors |-> "LOW"]
  /\ out = <<>>

\* The line's first k arguments are decimal numbers.
AllNum(l, k) == Len(l.args) >= k /\ \A j \in 1..k : l.args[j].t = "num"
\* The line ends with the state word ON or OFF, in any case.
HasStateWord(l, k) ==
  /\ Len(l.args) = k
  /\ (StrCaseEq(l.args[k], "ON") \/ StrCaseEq(l.args[k], "OFF"))
\* M, ENA, MOVE or TEST with an axis number outside 1..5, MOVE or TEST with
\* dps <= 0, TEST with rep < 1 (the numbers as the board reads them).
InvalidAxisOrSpeed(l) ==
  \/ l.kw = "M" /\ AllNum(l, 1) /\ Atoi(l.args[1]) \notin Motors
  \/ /\ l.kw = "ENA" /\ AllNum(l, 1) /\ HasStateWord(l, 2)
     /\ l.args[1].v >= 0 /\ Atoi(l.args[1]) \notin Motors
  \/ /\ l.kw = "MOVE" /\ AllNum(l, 3)
     /\ (Atoi(l.args[1]) \notin Motors \/ l.args[3].v <= 0)
  \/ /\ l.kw = "TEST" /\ AllNum(l, 5)
     /\ \/ Atoi(l.args[1]) \notin Motors
        \/ l.args[3].v <= 0
        \/ Atoi(l.args[4]) < 1

\* C11 (as claimed): M, ENA, MOVE or TEST with an axis number outside 1..5,
\* MOVE or TEST with dps <= 0 and TEST with rep < 1 are silently ignored: no
\* setting, ENA or DIR pin, abortRequested or movingMotor changes, no move
\* starts and nothing is printed.
C11_InvalidIgnored ==
  [][(LoopStep /\ InvalidAxisOrSpeed(Head(rx))) =>
       /\ UNCHANGED <<settings, signal, pins>>
       /\ out' = <<>>
       /\ pc' = "idle"]_vars

\* The keywords parseAndExec knows: the one-word commands (in any case) and
\* the tokenised ones (as typed), with the tokens each needs after it.
OneWordKeywords == {"HELP", "?", "SHOW", "G", "ABORT", "Q"}
TokenKeywords == {"M", "ENA", "STOP", "STATUS", "A", "V", "S", "RAMP", "PAUSE",
                  "REP", "MOVE", "TEST"}
RequiredTokens(kw) ==
  CASE kw = "MOVE" -> 3
    [] kw = "TEST" -> 5
    [] kw \in {"STOP", "STATUS"} -> 0
    [] OTHER -> 1
UnknownKeyword(l) ==
  /\ l.kw # ""
  /\ l.kw \notin TokenKeywords
  /\ ~(l.args = <<>> /\ ToUpperCase(l.kw) \in OneWordKeywords)
MissingToken(l) ==
  l.kw \in TokenKeywords /\ Len(l.args) < RequiredTokens(l.kw)
UnknownCommandLine == P("Bilinmeyen komut. 'HELP' yaz.", 0)

\* C12 (as claimed): a line with an unknown keyword, or with a known keyword
\* and a required token missing, prints the unknown-command line and changes
\* no state.
C12_MalformedReported ==
  [][(LoopStep /\ (UnknownKeyword(Head(rx)) \/ MissingToken(Head(rx)))) =>
       /\ out' = <<UnknownCommandLine>>
       /\ UNCHANGED <<settings, signal, pins>>
       /\ pc' = "idle"]_vars

\* C12 (amended): neither kind of malformed line changes state; an unknown
\* keyword prints the unknown-command line, a known keyword with a required
\* token missing prints nothing.
C12_MalformedNoEffect ==
  [][(LoopStep /\ (UnknownKeyword(Head(rx)) \/ MissingToken(Head(rx)))) =>
       /\ out' = IF UnknownKeyword(Head(rx)) THEN <<UnknownCommandLine>>
                 ELSE <<>>
       /\ UNCHANGED <<settings, signal, pins>>
       /\ pc' = "idle"]_vars

\* C12 witness: after M 2, MOVE 1 10 (no speed) was taken: nothing printed,
\* axis 2 still selected, no move.
C12_Witness ==
  /\ pc = "idle"
  /\ cur = Line("MOVE", <<Num(1), Num(10)>>)
  /\ out = <<>>
  /\ aktifMotor = 2
  /\ moves = <<>>

\* The one-word command Q, in any case.
IsQLine(l) == ToUpperCase(l.kw) = "Q" /\ l.args = <<>>
\* TEST with its five numbers, a valid axis, dps > 0 and rep >= 1.
IsTestLine(l) ==
  /\ l.kw = "TEST" /\ AllNum(l, 5)
  /\ Atoi(l.args[1]) \in Motors /\ l.args[3].v > 0 /\ Atoi(l.args[4]) >= 1
\* The repeat count, axis, angle and wait of the compound command l.
CompoundReps(l) == IF IsQLine(l) THEN repeats ELSE Atoi(l.args[4])
CompoundAxis(l) == IF IsQLine(l) THEN aktifMotor ELSE Atoi(l.args[1])
CompoundDeg(l) == IF IsQLine(l) THEN setAngleDeg ELSE l.args[2].v
CompoundWait(l) == IF IsQLine(l) THEN ULong(pauseMs) ELSE ULong(Atoi(l.args[5]))

\* C13: Q with repeats R, and TEST m deg dps R pause, with a step count above
\* 0, make 2R moves on the one axis, forward and backward in turn, each of
\* the full step count, and 2R - 1 waits: a wait follows every move but the
\* last.  TEST 1 10 90 3 200 makes 6 moves.
C13_CompoundMoves ==
  ((IsQLine(cur) \/ IsTestLine(cur))
     /\ DegToSteps(stepsPerRev[CompoundAxis(cur)], CompoundDeg(cur)) > 0) =>
    LET R == CompoundReps(cur)
        n == DegToSteps(stepsPerRev[CompoundAxis(cur)], CompoundDeg(cur))
    IN  /\ Len(moves) <= 2 * R
        /\ \A k \in 1..Len(moves) :
             moves[k] = [m |-> CompoundAxis(cur),
                         dir |-> IF k % 2 = 1 THEN "HIGH" ELSE "LOW",
                         n |-> n]
        /\ \A k \in 1..Len(waits) : waits[k] = CompoundWait(cur)
        /\ \A a \in Motors \ {CompoundAxis(cur)} : pulses[a] = 0
        /\ pc \in {"entry", "pulse", "end"} => Len(waits) = Len(moves)
        /\ pc = "return" => Len(waits) = Len(moves) - 1
        /\ pc = "idle" =>
             /\ Len(moves) = 2 * R
             /\ Len(waits) = 2 * R - 1
             /\ pulses[CompoundAxis(cur)] = 2 * R * n
        /\ (pc = "idle" /\ cur = Line("TEST", <<Num(1), Num(10), Num(90),
                                                  Num(3), Num(200)>>))
             => Len(moves) = 6

\* C13 witness: TEST 1 10 90 3 200 has finished: 6 moves of 44 steps on
\* axis 1 and 5 waits of 200 ms, while axis 2 was the selected one before.
C13_Witness ==
  /\ pc = "idle"
  /\ cur = Line("TEST", <<Num(1), Num(10), Num(90), Num(3), Num(200)>>)
  /\ Len(moves) = 6
  /\ moves[6] = [m |-> 1, dir |-> "LOW", n |-> 44]
  /\ waits = [k \in 1..5 |-> ULong(200)]
  /\ enaPin[2] = "LOW"

\* C14 (as claimed): once an abort has been requested during a Q or TEST
\* command (an ABORT or STOP line reached the board while it runs, during a
\* move or between two moves), that command starts no further move and emits
\* no further pulse.
C14_AbortEndsCommand ==
  [][abortInCommand =>
       /\ pulses' = pulses
       /\ ~(pc = "entry" /\ pc' = "pulse")]_vars

\* STOP m with m, as the board reads it, in 1..5.
IsStopAxis(l) == IsStopNum(l) /\ Atoi(l.args[1]) \in Motors

\* C15 (as claimed): STOP m, m in 1..5: if axis m is the moving one, the flag
\* is set, movingMotor is 0 and ENA of m is off; if it is not, the flag,
\* movingMotor and every ENA pin (that of m too) are unchanged.  No other
\* axis is disabled in either case.
C15_StopAxisOnlyIfMoving ==
  [][(LoopStep /\ IsStopAxis(Head(rx))) =>
       LET m == Atoi(Head(rx).args[1])
       IN  /\ IF movingMotor = m
              THEN /\ abortRequested' /\ movingMotor' = 0
                   /\ enaPin'[m] = "HIGH"
              ELSE UNCHANGED <<signal, enaPin>>
           /\ \A k \in Motors \ {m} : enaPin'[k] = enaPin[k]]_vars

\* C15 (amended): STOP m, m in 1..5, turns ENA of m off and prints its line
\* whether or not m is moving; the flag is set and movingMotor cleared only
\* if m is the moving axis, and are unchanged otherwise.  No other axis is
\* disabled, no setting changes.
C15_StopAxisDisables ==
  [][(LoopStep /\ IsStopAxis(Head(rx))) =>
       LET m == Atoi(Head(rx).args[1])
       IN  /\ IF movingMotor = m
              THEN abortRequested' /\ movingMotor' = 0
              ELSE UNCHANGED signal
           /\ enaPin' = [enaPin EXCEPT ![m] = "HIGH"]
           /\ out' = <<P("STOP: M", m)>>
           /\ pc' = "idle"
           /\ UNCHANGED <<settings, dirPin>>]_vars

\* C15 witness: STOP 1 was taken after a finished move of axis 1: the driver
\* of axis 1 is off, the others on, the flag clear.
C15_Witness ==
  /\ pc = "idle"
  /\ cur = Line("STOP", <<Num(1)>>)
  /\ lastMoving = P("MOVING END", 1)
  /\ enaPin = [k \in Motors |-> IF k = 1 THEN "HIGH" ELSE "LOW"]
  /\ ~abortRequested
  /\ movingMotor = 0
  /\ out = <<P("STOP: M", 1)>>

\* C16: moveWithProfile called with an angle of less than half a step (a
\* step count that rounds to 0) returns at once: no pulse, no MOVING line,
\* DIR and ENA pins, movingMotor and abortRequested as they were.
C16_ZeroStepNoOp ==
  [][(FirmwareStep /\ pc = "entry"
        /\ 2 * Abs(mv.deg) * stepsPerRev[mv.m] < 360) =>
       /\ pc' = "return"
       /\ out' = <<>>
       /\ UNCHANGED <<settings, signal, pins, pulses, lastMoving, moves>>]_vars

\* C16 witness: G with angle 0 has returned after ABORT: the flag is still
\* set, the drivers still off, nothing was pulsed or printed.
C16_Witness ==
  /\ pc = "return" /\ cmd.kind = "G"
  /\ setAngleDeg = 0
  /\ abortRequested
  /\ enaPin = [k \in Motors |-> "HIGH"]
  /\ pulses = [k \in Motors |-> 0]
  /\ moves = <<>>
  /\ lastMoving = P("", 0)
  /\ out = <<>>

\* C17 (as claimed): in the ramped branch startDelayUs >= targetDelayUs + 2,
\* every pulse has a delay from targetDelayUs to startDelayUs, the first and
\* the last pulse of the move have the delay startDelayUs, and pulse i of
\* the deceleration has the delay of pulse rampSteps - 1 - i of the
\* acceleration.
C17_SymmetricProfile ==
  (pc \in {"pulse", "end"} /\ Ramped(mv)) =>
    /\ mv.rs >= 1
    /\ mv.start >= mv.tgt + 2
    /\ mv.emitted >= 1 => (mv.tgt <= curDelay /\ curDelay <= mv.start)
    /\ mv.emitted = 1 => curDelay = mv.start
    /\ mv.emitted = mv.total => curDelay = mv.start
    /\ (mv.phase = "decel" /\ mv.i >= 1) =>
         curDelay = AccelDelay(mv.rs - mv.i, mv.rs, mv.tgt, mv.start)

IsMoveLine(l) ==
  /\ l.kw = "MOVE" /\ AllNum(l, 3)
  /\ Atoi(l.args[1]) \in Motors /\ l.args[3].v > 0
\* The one-word command G, in any case.
IsGLine(l) == ToUpperCase(l.kw) = "G" /\ l.args = <<>>

====
